---- MODULE Spec2Model ----
(***************************************************************************)
(* Job orchestration of geo-insight-ai: submission (Dispatcher), the two   *)
(* executors of the neighbourhood pipeline and of the standalone           *)
(* green-space pipeline (in-process background task, Celery task), the     *)
(* persisted job record, the Celery result backend and the status          *)
(* resolver get_task_status.                                               *)
(*                                                                         *)
(* The job store is MongoDB.  An update of a record that exists is taken   *)
(* to succeed; a Celery task opens its own connection (get_sync_database)  *)
(* and that connection may fail.  Records are never deleted (the           *)
(* maintenance tasks call get_sync_database() as if it returned a          *)
(* database and therefore always end in their own except branch).          *)
(***************************************************************************)
EXTENDS Integers, Sequences, FiniteSets, TLC

\* number of submissions considered
MaxJobs == 1

Jobs == 1..MaxJobs

NULL == "null"

\* ---------------------------------------------------------------------------
\* Program constants
\* ---------------------------------------------------------------------------
PROGRESS_AMENITIES == 40
PROGRESS_WALK_SCORE == 55
PROGRESS_GREEN_SPACE == 75
PROGRESS_MAP == 85
PROGRESS_COMPLETE == 100

\* error strings the amenity lookup may put in its "error" field
AmenityErrors == {"address not found", "overpass unavailable"}

\* str(exc) of an exception raised inside a run
ExcMsgs == {"exc"}

\* ---------------------------------------------------------------------------
\* The job record (one MongoDB document) and $set
\* ---------------------------------------------------------------------------
NoRecord ==
  [exists |-> FALSE, coll |-> NULL, id |-> NULL, address |-> NULL,
   search_radius_m |-> NULL, amenity_types |-> NULL, status |-> NULL, progress |-> 0,
   error |-> NULL, completed_at |-> FALSE, coordinates |-> NULL,
   amenities |-> NULL, walk_score |-> NULL, green_space_percentage |-> NULL,
   green_space_breakdown |-> NULL, green_space_visualization |-> NULL,
   map_path |-> NULL]

\* the document inserted by analyze_neighborhood / analyze_green_space: the
\* request's address and radius, amenity_types for a neighbourhood job only
NewRecord(coll) ==
  [NoRecord EXCEPT !.exists = TRUE, !.coll = coll, !.status = "pending",
                   !.progress = 0, !.address = "address",
                   !.search_radius_m = "radius_m",
                   !.amenity_types = IF coll = "nbr" THEN "amenity_types" ELSE NULL]

\* a variant of the update that replaces the document by update_data
SetFields_Replace(doc, update_data) ==
  [k \in DOMAIN doc |-> IF k \in DOMAIN update_data THEN update_data[k] ELSE NoRecord[k]]

\* update_one(..., {"$set": update_data}) on one document
SetFields(doc, update_data) ==
  [k \in DOMAIN doc |-> IF k \in DOMAIN update_data THEN update_data[k] ELSE doc[k]]

\* update_analysis_status: update_data = {"status": status}; update_data.update(updates)
update_analysis_status(doc, status, updates) ==
  IF doc.exists THEN SetFields(doc, updates @@ ("status" :> status)) ELSE doc

\* a variant of the checkpoint write that leaves the progress out
update_analysis_progress_NoProgress(doc, progress, data) ==
  update_analysis_status(doc, "processing", data)

\* update_analysis_progress: {"progress": progress} plus data, written as "processing"
update_analysis_progress(doc, progress, data) ==
  update_analysis_status(doc, "processing", data @@ ("progress" :> progress))

\* how a green-space stage of the neighbourhood pipeline can come out: the
\* classifier's result (with or without a visualization file), the tile fetch
\* returning nothing, the classifier answering None, an exception
GreenOutcomes == {"ok", "ok_no_visualization", "nothing", "unavailable", "raised"}
GreenFailures == {"nothing", "unavailable", "raised"}

\* a variant that hands on a result whatever happened
GreenSpaceData_Always(outcome) == "result"

\* green_space_data as _analyze_green_space / _run_green_space_sync return it:
\* `result or {}`, and {} (here NULL) on every other path
GreenSpaceData(outcome) ==
  IF outcome = "ok" THEN "result"
  ELSE IF outcome = "ok_no_visualization" THEN "result_no_visualization"
  ELSE NULL

\* green_space_data.get(key)
GreenGet(green_space_data, key) ==
  IF green_space_data = NULL THEN NULL
  ELSE CASE key = "green_space_percentage" -> "pct"
         [] key = "breakdown" -> "breakdown"
         [] OTHER -> IF green_space_data = "result" THEN "results/file" ELSE NULL

\* the green-space keys of an update, read from green_space_data
GreenFields(green_space_data) ==
  ("green_space_percentage" :> GreenGet(green_space_data, "green_space_percentage")) @@
  ("green_space_breakdown" :> GreenGet(green_space_data, "breakdown")) @@
  ("green_space_visualization" :> GreenGet(green_space_data, "visualization_path"))

\* variants of the failure payload: without the progress, with a fixed message
FailedUpdates_NoProgress(msg) == ("error" :> msg)
FailedUpdates_FixedMessage(msg) == ("error" :> "Analysis failed") @@ ("progress" :> 100)

\* the payload of every failure write of the neighbourhood executors
FailedUpdates(msg) == ("error" :> msg) @@ ("progress" :> 100)

\* a variant of result_data that leaves completed_at out
ResultData_NoCompletedAt(l) ==
  ("walk_score" :> l.walk_score) @@ ("map_path" :> l.map_path) @@
  ("amenities" :> "amenities") @@ ("coordinates" :> l.coordinates) @@
  GreenFields(l.gsp) @@ ("progress" :> PROGRESS_COMPLETE)

\* result_data of process_neighborhood_sync
ResultData(l) ==
  ("walk_score" :> l.walk_score) @@ ("map_path" :> l.map_path) @@
  ("amenities" :> "amenities") @@ ("coordinates" :> l.coordinates) @@
  GreenFields(l.gsp) @@
  ("progress" :> PROGRESS_COMPLETE) @@ ("completed_at" :> TRUE)

\* ---------------------------------------------------------------------------
\* State
\* ---------------------------------------------------------------------------
VARIABLES
  celeryInstalled,  \* CELERY_AVAILABLE: the celery imports succeed
  rec,              \* job id -> job record
  sub,              \* job id -> what the submission returned
  run,              \* job id -> the executor run scheduled for the job
  stages,           \* job id -> stages the run has entered
  task,             \* job id -> the Celery task enqueued for the job (result backend entry)
  poll,             \* the get_task_status request in flight
  resp,             \* the last response of get_task_status
  gs,               \* one call of a green-space stage and its tile file
  cv,               \* one call of analyze_osm_green_spaces
  cl,               \* one call of the client's poll_task_status
  em,               \* one call of _extract_message by get_task_status
  dbc,              \* the Database class and the calls of it under way
  bw                \* one call of batch_workflow

\* the job pipeline, the tile-file stage and the classifier are checked under
\* specifications of their own; each leaves the others' variables as they are
pipeline == <<celeryInstalled, rec, sub, run, stages, task, poll, resp>>

\* the variables of the calls modelled apart from the four above
apart == <<cl, em, dbc, bw>>

vars == <<celeryInstalled, rec, sub, run, stages, task, poll, resp, gs, cv, apart>>

\* task ids: "analysis_" + body when marker, else body; a body is an ObjectId
\* string (t = "oid") or a Celery uuid (t = "uuid"); n = 0 was never issued
Oid(n) == [t |-> "oid", n |-> n]
Uuid(n) == [t |-> "uuid", n |-> n]

NoSub == [code |-> 0, marker |-> FALSE, body |-> Oid(0), enqueue |-> NULL]
\* a run: its kind and position, the function's locals, and how its stages
\* came out (amenity, walk, green, map: NULL while the stage has not run)
NoRun ==
  [kind |-> "none", pc |-> "none", generate_map |-> FALSE,
   include_buildings |-> FALSE, coordinates |-> NULL, walk_score |-> NULL,
   gsp |-> NULL, map_path |-> NULL, amenity |-> NULL, db |-> FALSE,
   cp |-> 0, result |-> NULL, walk |-> NULL, green |-> NULL, map |-> NULL]
\* a backend entry: state, the PROGRESS meta's progress, the returned dict's
\* status and whether the returned dict has a "progress" key
NoTask == [state |-> "NONE", progress |-> 0, result |-> NULL, has_progress |-> FALSE]

\* the task ids a client may present
Handles ==
  [marker : BOOLEAN, body : {Oid(n) : n \in 0..MaxJobs}]
    \cup [marker : {FALSE}, body : {Uuid(n) : n \in 0..MaxJobs}]

\* no stage call, no classifier call, no call of another kind
NoStage == [fn |-> NULL, pc |-> "none"]
NoCall == [pc |-> "none"]

\* none of the calls modelled apart is under way
NoneApart == cl = NoCall /\ em = NoCall /\ dbc = NoCall /\ bw = NoCall

NoHandle == [marker |-> FALSE, body |-> Oid(0 - 1)]
NoPoll == [pc |-> "idle", task_id |-> NoHandle, state |-> NULL]
NoResp ==
  [code |-> 0, path |-> 0, backend_queried |-> FALSE, task_id |-> NoHandle,
   analysis_id |-> NULL, status |-> NULL, progress |-> 0, result |-> NULL,
   error |-> NULL]

Init ==
  /\ celeryInstalled \in BOOLEAN
  /\ rec = [j \in Jobs |-> NoRecord]
  /\ sub = [j \in Jobs |-> NoSub]
  /\ run = [j \in Jobs |-> NoRun]
  /\ stages = [j \in Jobs |-> {}]
  /\ task = [j \in Jobs |-> NoTask]
  /\ poll = NoPoll
  /\ resp = NoResp
  /\ gs = NoStage
  /\ cv = NoCall
  /\ NoneApart

\* ---------------------------------------------------------------------------
\* Dispatcher
\* ---------------------------------------------------------------------------
\* what analyze_neighborhood_task.delay / analyze_satellite_task.delay can do
EnqueueOutcomes == {"ok", "import_error", "connection_error"}

\* Jobs are taken one after the other: a run writes no record but its own, so
\* the next submission is considered once the previous run has ended.
CanSubmit(j) ==
  /\ sub[j].code = 0
  /\ \A i \in Jobs : i < j => sub[i].code # 0 /\ run[i].pc \in {"none", "done"}

\* the `except` clause around .delay: does it catch this outcome and fall back?
NbrFallsBack(outcome) == outcome = "import_error"
SatFallsBack(outcome) == outcome \in {"import_error", "connection_error"}

\* the common body of both submission endpoints, after the record is inserted
Dispatch(j, coll, firstPc, opts, outcome, fallsBack) ==
  \* insert_one gives the document its _id
  /\ rec' = [rec EXCEPT ![j] = [NewRecord(coll) EXCEPT !.id = Oid(j)]]
  /\ IF celeryInstalled /\ outcome = "ok"
       THEN /\ task' = [task EXCEPT ![j] = [NoTask EXCEPT !.state = "PENDING"]]
            /\ run' = [run EXCEPT ![j] = [opts EXCEPT !.kind = "celery", !.pc = "queued"]]
            /\ sub' = [sub EXCEPT ![j] = [code |-> 202, marker |-> FALSE,
                                          body |-> Uuid(j), enqueue |-> outcome]]
       ELSE IF ~celeryInstalled \/ fallsBack
         THEN /\ run' = [run EXCEPT ![j] = [opts EXCEPT !.kind = "inproc", !.pc = firstPc]]
              /\ sub' = [sub EXCEPT ![j] =
                           [code |-> 202, marker |-> TRUE, body |-> Oid(j),
                            enqueue |-> IF celeryInstalled THEN outcome ELSE "not_installed"]]
              /\ UNCHANGED task
         ELSE \* the exception reaches the outer handler: HTTPException(500)
              /\ sub' = [sub EXCEPT ![j] = [code |-> 500, marker |-> FALSE,
                                            body |-> Oid(0), enqueue |-> outcome]]
              /\ UNCHANGED <<run, task>>
  /\ UNCHANGED <<gs, cv, apart, celeryInstalled, stages, poll, resp>>

analyze_neighborhood(j) ==
  /\ CanSubmit(j)
  /\ \E gm \in BOOLEAN, ib \in BOOLEAN, outcome \in EnqueueOutcomes :
       Dispatch(j, "nbr", "amenities",
                [NoRun EXCEPT !.generate_map = gm, !.include_buildings = ib],
                outcome, NbrFallsBack(outcome))

analyze_green_space(j) ==
  /\ CanSubmit(j)
  /\ \E outcome \in EnqueueOutcomes :
       Dispatch(j, "sat", "start", NoRun, outcome, SatFallsBack(outcome))

\* ---------------------------------------------------------------------------
\* Executors
\* ---------------------------------------------------------------------------
\* the function has returned: its locals are gone
Ended(l) ==
  [NoRun EXCEPT !.kind = l.kind, !.pc = "done", !.amenity = l.amenity,
                !.result = l.result, !.walk = l.walk, !.green = l.green,
                !.map = l.map]

Enter(j, stage) == stages' = [stages EXCEPT ![j] = @ \cup {stage}]

\* --- process_neighborhood_sync -------------------------------------------
\* the except branch (and the early return on an error field): failed, done
NbrSyncFail(j, msg) ==
  /\ rec' = [rec EXCEPT ![j] = update_analysis_status(@, "failed", FailedUpdates(msg))]
  /\ run' = [run EXCEPT ![j] = Ended(@)]

NbrSyncAmenities(j) ==
  /\ run[j].kind = "inproc" /\ rec[j].coll = "nbr" /\ run[j].pc = "amenities"
  /\ Enter(j, "amenities")
  /\ \/ \E msg \in AmenityErrors :       \* "error" in amenities_data
          /\ rec' = [rec EXCEPT ![j] = update_analysis_status(@, "failed", FailedUpdates(msg))]
          /\ run' = [run EXCEPT ![j] = Ended([@ EXCEPT !.amenity = msg])]
     \/ \E x \in ExcMsgs : NbrSyncFail(j, x)   \* the lookup raises
     \/ \E c \in {NULL, "coords"} :
          /\ rec' = [rec EXCEPT ![j] = update_analysis_progress(@, PROGRESS_AMENITIES, <<>>)]
          /\ run' = [run EXCEPT ![j].pc = "walk", ![j].coordinates = c, ![j].amenity = "ok"]
  /\ UNCHANGED <<gs, cv, apart, celeryInstalled, sub, task, poll, resp>>

NbrSyncWalk(j) ==
  /\ run[j].kind = "inproc" /\ rec[j].coll = "nbr" /\ run[j].pc = "walk"
  /\ IF run[j].coordinates # NULL
       THEN /\ Enter(j, "walk_score")
            /\ \/ \E x \in ExcMsgs :      \* calculate_walk_score raises
                    /\ rec' = [rec EXCEPT ![j] =
                                 update_analysis_status(@, "failed", FailedUpdates(x))]
                    /\ run' = [run EXCEPT ![j] = Ended([@ EXCEPT !.walk = "raised"])]
               \/ /\ rec' = [rec EXCEPT ![j] = update_analysis_progress(
                                 @, PROGRESS_WALK_SCORE, ("walk_score" :> "score"))]
                  /\ run' = [run EXCEPT ![j].pc = "green60", ![j].walk_score = "score",
                                        ![j].walk = "ok"]
       ELSE /\ rec' = [rec EXCEPT ![j] = update_analysis_progress(
                           @, PROGRESS_WALK_SCORE, ("walk_score" :> NULL))]
            /\ run' = [run EXCEPT ![j].pc = "green75"]
            /\ UNCHANGED stages
  /\ UNCHANGED <<gs, cv, apart, celeryInstalled, sub, task, poll, resp>>

NbrSyncGreen60(j) ==
  /\ run[j].kind = "inproc" /\ rec[j].coll = "nbr" /\ run[j].pc = "green60"
  /\ rec' = [rec EXCEPT ![j] = update_analysis_progress(@, PROGRESS_WALK_SCORE + 5, <<>>)]
  /\ run' = [run EXCEPT ![j].pc = "green75"]
  /\ UNCHANGED <<gs, cv, apart, celeryInstalled, sub, task, stages, poll, resp>>

\* _analyze_green_space returns the classifier's result or {} and never raises;
\* without coordinates it is not called and green_space_data stays {}
NbrSyncGreen75(j) ==
  /\ run[j].kind = "inproc" /\ rec[j].coll = "nbr" /\ run[j].pc = "green75"
  /\ \E o \in (IF run[j].coordinates # NULL THEN GreenOutcomes ELSE {NULL}) :
       LET g == IF o = NULL THEN NULL ELSE GreenSpaceData(o)
       IN /\ rec' = [rec EXCEPT ![j] = update_analysis_progress(
                         @, PROGRESS_GREEN_SPACE, GreenFields(g))]
          /\ run' = [run EXCEPT ![j].gsp = g, ![j].green = o,
                                ![j].pc = IF run[j].generate_map /\ run[j].coordinates # NULL
                                            THEN "map85" ELSE "final"]
  /\ IF run[j].coordinates # NULL THEN Enter(j, "green_space") ELSE UNCHANGED stages
  /\ UNCHANGED <<gs, cv, apart, celeryInstalled, sub, task, poll, resp>>

NbrSyncMap85(j) ==
  /\ run[j].kind = "inproc" /\ rec[j].coll = "nbr" /\ run[j].pc = "map85"
  /\ rec' = [rec EXCEPT ![j] = update_analysis_progress(@, PROGRESS_MAP, <<>>)]
  /\ run' = [run EXCEPT ![j].pc = "final"]
  /\ UNCHANGED <<gs, cv, apart, celeryInstalled, sub, task, stages, poll, resp>>

\* map_path is assigned os.path.join("maps", ...) before the renderer is called
\* and is overwritten only when the renderer returns
NbrSyncFinal(j) ==
  /\ run[j].kind = "inproc" /\ rec[j].coll = "nbr" /\ run[j].pc = "final"
  /\ \E m \in (IF run[j].generate_map /\ run[j].coordinates # NULL
                 THEN {"rendered", "nothing", "raised"} ELSE {"skipped"}) :
       LET l == [run[j] EXCEPT !.map_path =
                    IF m \in {"rendered", "raised"} THEN "maps/file" ELSE NULL,
                                !.map = IF m = "skipped" THEN NULL ELSE m]
       IN /\ rec' = [rec EXCEPT ![j] = update_analysis_status(@, "completed", ResultData(l))]
          /\ run' = [run EXCEPT ![j] = Ended(l)]
          /\ IF m = "skipped" THEN UNCHANGED stages ELSE Enter(j, "map")
  /\ UNCHANGED <<gs, cv, apart, celeryInstalled, sub, task, poll, resp>>

process_neighborhood_sync(j) ==
  \/ NbrSyncAmenities(j) \/ NbrSyncWalk(j) \/ NbrSyncGreen60(j)
  \/ NbrSyncGreen75(j) \/ NbrSyncMap85(j) \/ NbrSyncFinal(j)

\* --- the Celery worker -------------------------------------------------------
\* a variant of the worker's write that stores the status alone
update_analysis_status_sync_StatusOnly(doc, status, updates) ==
  IF doc.exists THEN SetFields(doc, ("status" :> status)) ELSE doc

\* update_analysis_status_sync (geospatial_tasks.py and satellite_tasks.py)
update_analysis_status_sync(doc, status, updates) ==
  IF doc.exists THEN SetFields(doc, updates @@ ("status" :> status)) ELSE doc

\* update_data of analyze_neighborhood_task
TaskUpdateData(l) ==
  ("status" :> "completed") @@ ("walk_score" :> l.walk_score) @@
  ("map_path" :> l.map_path) @@ ("amenities" :> "amenities") @@
  ("coordinates" :> l.coordinates) @@ GreenFields(l.gsp) @@
  ("completed_at" :> TRUE) @@ ("progress" :> 100)

\* the worker takes the task off the queue (task_track_started = True)
WorkerStart(j) ==
  /\ run[j].kind = "celery" /\ run[j].pc = "queued"
  /\ task' = [task EXCEPT ![j].state = "STARTED"]
  /\ run' = [run EXCEPT ![j].pc = "connect"]
  /\ UNCHANGED <<gs, cv, apart, celeryInstalled, rec, sub, stages, poll, resp>>

\* self.update_state(state='PROGRESS', meta={..., 'progress': cp})
TaskPublish(j) ==
  /\ run[j].kind = "celery" /\ run[j].pc = "publish"
  /\ task' = [task EXCEPT ![j].state = "PROGRESS", ![j].progress = run[j].cp]
  /\ run' = [run EXCEPT ![j].pc = "record"]
  /\ UNCHANGED <<gs, cv, apart, celeryInstalled, rec, sub, stages, poll, resp>>

\* the statement that follows the record write of checkpoint cp
AfterRecord(coll, cp) ==
  IF coll = "nbr"
    THEN CASE cp = 5 -> "publish"
           [] cp = 20 -> "amenities"
           [] cp = 50 -> "walk"
           [] cp = 55 -> "green"
           [] cp = 65 -> "buildings"
           [] OTHER -> "map"
    ELSE CASE cp = 10 -> "geocode"
           [] cp = 30 -> "tiles"
           [] OTHER -> "classify"

\* update_analysis_status_sync(db, analysis_id, 'processing', {'progress': cp, ...})
TaskRecord(j) ==
  /\ run[j].kind = "celery" /\ run[j].pc = "record"
  /\ rec' = [rec EXCEPT ![j] = update_analysis_status_sync(@, "processing",
               IF rec[j].coll = "sat" /\ run[j].cp = 30
                 THEN ("progress" :> run[j].cp) @@ ("coordinates" :> "coords")
                 ELSE ("progress" :> run[j].cp))]
  /\ run' = [run EXCEPT ![j].pc = AfterRecord(rec[j].coll, run[j].cp),
                        ![j].cp = IF rec[j].coll = "nbr" /\ run[j].cp = 5 THEN 20 ELSE @]
  /\ UNCHANGED <<gs, cv, apart, celeryInstalled, sub, task, stages, poll, resp>>

\* does the dict the task returns have a "progress" key?  (only result_data of
\* analyze_satellite_task has one)
ReturnsProgress(coll, result) == coll = "sat" /\ result = "completed"

\* the task function returns its dict: the backend stores SUCCESS with it
TaskReturn(j) ==
  /\ run[j].kind = "celery" /\ run[j].pc = "return"
  /\ task' = [task EXCEPT ![j].state = "SUCCESS", ![j].result = run[j].result,
                          ![j].has_progress = ReturnsProgress(rec[j].coll, run[j].result)]
  /\ run' = [run EXCEPT ![j] = Ended(@)]
  /\ UNCHANGED <<gs, cv, apart, celeryInstalled, rec, sub, stages, poll, resp>>

\* --- analyze_neighborhood_task ------------------------------------------------
\* the except branch: the failure write happens only with a database handle
NbrTaskExcept(j, msg) ==
  /\ rec' = [rec EXCEPT ![j] =
               IF run[j].db
                 THEN update_analysis_status_sync(@, "failed", FailedUpdates(msg))
                 ELSE @]
  /\ run' = [run EXCEPT ![j].pc = "return", ![j].result = "failed"]

NbrTaskConnect(j) ==
  /\ run[j].kind = "celery" /\ rec[j].coll = "nbr" /\ run[j].pc = "connect"
  /\ \/ /\ run' = [run EXCEPT ![j].db = TRUE, ![j].pc = "publish", ![j].cp = 5]
        /\ UNCHANGED rec
     \/ \E x \in ExcMsgs : NbrTaskExcept(j, x)      \* get_sync_database raises
  /\ UNCHANGED <<gs, cv, apart, celeryInstalled, sub, task, stages, poll, resp>>

NbrTaskAmenities(j) ==
  /\ run[j].kind = "celery" /\ rec[j].coll = "nbr" /\ run[j].pc = "amenities"
  /\ Enter(j, "amenities")
  /\ \/ \E msg \in AmenityErrors :       \* raise Exception(amenities_data["error"])
          /\ rec' = [rec EXCEPT ![j] =
                       IF run[j].db
                         THEN update_analysis_status_sync(@, "failed", FailedUpdates(msg))
                         ELSE @]
          /\ run' = [run EXCEPT ![j].pc = "return", ![j].result = "failed",
                                ![j].amenity = msg]
     \/ \E x \in ExcMsgs : NbrTaskExcept(j, x)
     \/ \E c \in {NULL, "coords"} :
          /\ run' = [run EXCEPT ![j].pc = "publish", ![j].cp = 50,
                                ![j].coordinates = c, ![j].amenity = "ok"]
          /\ UNCHANGED rec
  /\ UNCHANGED <<gs, cv, apart, celeryInstalled, sub, task, poll, resp>>

\* where the task goes after the green-space block / the buildings block
NbrTaskAfterGreen(l) ==
  IF l.include_buildings THEN [l EXCEPT !.pc = "publish", !.cp = 65]
  ELSE IF l.generate_map /\ l.coordinates # NULL THEN [l EXCEPT !.pc = "publish", !.cp = 80]
  ELSE [l EXCEPT !.pc = "final"]

NbrTaskAfterBuildings(l) ==
  IF l.generate_map /\ l.coordinates # NULL THEN [l EXCEPT !.pc = "publish", !.cp = 80]
  ELSE [l EXCEPT !.pc = "final"]

NbrTaskWalk(j) ==
  /\ run[j].kind = "celery" /\ rec[j].coll = "nbr" /\ run[j].pc = "walk"
  /\ IF run[j].coordinates # NULL
       THEN /\ Enter(j, "walk_score")
            /\ \/ \E x \in ExcMsgs :      \* calculate_walk_score raises
                    /\ rec' = [rec EXCEPT ![j] =
                                 IF run[j].db
                                   THEN update_analysis_status_sync(@, "failed", FailedUpdates(x))
                                   ELSE @]
                    /\ run' = [run EXCEPT ![j].pc = "return", ![j].result = "failed",
                                          ![j].walk = "raised"]
               \/ /\ run' = [run EXCEPT ![j].walk_score = "score", ![j].walk = "ok",
                                        ![j].pc = "publish", ![j].cp = 55]
                  /\ UNCHANGED rec
       ELSE /\ run' = [run EXCEPT ![j] = NbrTaskAfterGreen(@)]
            /\ UNCHANGED <<rec, stages>>
  /\ UNCHANGED <<gs, cv, apart, celeryInstalled, sub, task, poll, resp>>

\* _run_green_space_sync returns the classifier's result or {} and never raises
NbrTaskGreen(j) ==
  /\ run[j].kind = "celery" /\ rec[j].coll = "nbr" /\ run[j].pc = "green"
  /\ Enter(j, "green_space")
  /\ \E o \in GreenOutcomes :
       run' = [run EXCEPT ![j] =
                 NbrTaskAfterGreen([@ EXCEPT !.gsp = GreenSpaceData(o), !.green = o])]
  /\ UNCHANGED <<gs, cv, apart, celeryInstalled, rec, sub, task, poll, resp>>

\* get_building_footprints: its exception is caught in place
NbrTaskBuildings(j) ==
  /\ run[j].kind = "celery" /\ rec[j].coll = "nbr" /\ run[j].pc = "buildings"
  /\ Enter(j, "buildings")
  /\ run' = [run EXCEPT ![j] = NbrTaskAfterBuildings(@)]
  /\ UNCHANGED <<gs, cv, apart, celeryInstalled, rec, sub, task, poll, resp>>

NbrTaskMap(j) ==
  /\ run[j].kind = "celery" /\ rec[j].coll = "nbr" /\ run[j].pc = "map"
  /\ Enter(j, "map")
  /\ \E m \in {"rendered", "nothing", "raised"} :
       run' = [run EXCEPT ![j].pc = "final", ![j].map = m,
                          ![j].map_path = IF m = "rendered" THEN "maps/file" ELSE NULL]
  /\ UNCHANGED <<gs, cv, apart, celeryInstalled, rec, sub, task, poll, resp>>

NbrTaskFinal(j) ==
  /\ run[j].kind = "celery" /\ rec[j].coll = "nbr" /\ run[j].pc = "final"
  /\ rec' = [rec EXCEPT ![j] =
               update_analysis_status_sync(@, "completed", TaskUpdateData(run[j]))]
  /\ run' = [run EXCEPT ![j].pc = "return", ![j].result = "completed"]
  /\ UNCHANGED <<gs, cv, apart, celeryInstalled, sub, task, stages, poll, resp>>

analyze_neighborhood_task(j) ==
  \/ NbrTaskConnect(j) \/ NbrTaskAmenities(j) \/ NbrTaskWalk(j) \/ NbrTaskGreen(j)
  \/ NbrTaskBuildings(j) \/ NbrTaskMap(j) \/ NbrTaskFinal(j)

\* --- _process_green_space_analysis (standalone green-space, in-process) --------
\* update_satellite_analysis_status: update_data["status"] = status; $set
update_satellite_analysis_status(doc, status, update_data) ==
  IF doc.exists THEN SetFields(doc, ("status" :> status) @@ update_data) ELSE doc

\* the payload of the failure writes of the green-space executors
SatFailedUpdates(msg) == ("error" :> msg) @@ ("progress" :> 100)

\* the payload of the completion write of the green-space executors
SatResultData ==
  ("coordinates" :> "coords") @@ ("green_space_percentage" :> "pct") @@
  ("progress" :> 100) @@ ("completed_at" :> TRUE)

SatSyncFail(j, msg) ==
  /\ rec' = [rec EXCEPT ![j] =
               update_satellite_analysis_status(@, "failed", SatFailedUpdates(msg))]
  /\ run' = [run EXCEPT ![j] = Ended(@)]

SatSyncStart(j) ==
  /\ run[j].kind = "inproc" /\ rec[j].coll = "sat" /\ run[j].pc = "start"
  /\ rec' = [rec EXCEPT ![j] =
               update_satellite_analysis_status(@, "processing", ("progress" :> 10))]
  /\ run' = [run EXCEPT ![j].pc = "geocode"]
  /\ UNCHANGED <<gs, cv, apart, celeryInstalled, sub, task, stages, poll, resp>>

SatSyncGeocode(j) ==
  /\ run[j].kind = "inproc" /\ rec[j].coll = "sat" /\ run[j].pc = "geocode"
  /\ Enter(j, "geocode")
  /\ \/ SatSyncFail(j, "Could not geocode address")
     \/ \E x \in ExcMsgs : SatSyncFail(j, x)
     \/ /\ rec' = [rec EXCEPT ![j] = update_satellite_analysis_status(@, "processing",
                      ("progress" :> 30) @@ ("coordinates" :> "coords"))]
        /\ run' = [run EXCEPT ![j].pc = "tiles", ![j].coordinates = "coords"]
  /\ UNCHANGED <<gs, cv, apart, celeryInstalled, sub, task, poll, resp>>

SatSyncTiles(j) ==
  /\ run[j].kind = "inproc" /\ rec[j].coll = "sat" /\ run[j].pc = "tiles"
  /\ Enter(j, "tiles")
  /\ \/ SatSyncFail(j, "Failed to fetch OSM tiles")
     \/ \E x \in ExcMsgs : SatSyncFail(j, x)
     \/ /\ rec' = [rec EXCEPT ![j] =
                     update_satellite_analysis_status(@, "processing", ("progress" :> 60))]
        /\ run' = [run EXCEPT ![j].pc = "classify"]
  /\ UNCHANGED <<gs, cv, apart, celeryInstalled, sub, task, poll, resp>>

\* analyze_osm_green_spaces returns a result or None
SatSyncClassify(j) ==
  /\ run[j].kind = "inproc" /\ rec[j].coll = "sat" /\ run[j].pc = "classify"
  /\ Enter(j, "classify")
  /\ \/ SatSyncFail(j, "Green space calculation failed")
     \/ /\ rec' = [rec EXCEPT ![j] =
                     update_satellite_analysis_status(@, "completed", SatResultData)]
        /\ run' = [run EXCEPT ![j] = Ended(@)]
  /\ UNCHANGED <<gs, cv, apart, celeryInstalled, sub, task, poll, resp>>

process_green_space_analysis(j) ==
  \/ SatSyncStart(j) \/ SatSyncGeocode(j) \/ SatSyncTiles(j) \/ SatSyncClassify(j)

\* --- analyze_satellite_task -------------------------------------------------------
\* the except branch opens a connection of its own for the failure write
SatTaskExcept(j, msg) ==
  /\ \E reconnected \in BOOLEAN :
       rec' = [rec EXCEPT ![j] =
                 IF reconnected
                   THEN update_analysis_status_sync(@, "failed", SatFailedUpdates(msg))
                   ELSE @]
  /\ run' = [run EXCEPT ![j].pc = "return", ![j].result = "failed"]

SatTaskConnect(j) ==
  /\ run[j].kind = "celery" /\ rec[j].coll = "sat" /\ run[j].pc = "connect"
  /\ \/ /\ run' = [run EXCEPT ![j].db = TRUE, ![j].pc = "publish", ![j].cp = 10]
        /\ UNCHANGED rec
     \/ \E x \in ExcMsgs : SatTaskExcept(j, x)
  /\ UNCHANGED <<gs, cv, apart, celeryInstalled, sub, task, stages, poll, resp>>

SatTaskGeocode(j) ==
  /\ run[j].kind = "celery" /\ rec[j].coll = "sat" /\ run[j].pc = "geocode"
  /\ Enter(j, "geocode")
  /\ \/ SatTaskExcept(j, "Could not geocode address")
     \/ \E x \in ExcMsgs : SatTaskExcept(j, x)
     \/ /\ run' = [run EXCEPT ![j].pc = "publish", ![j].cp = 30,
                              ![j].coordinates = "coords"]
        /\ UNCHANGED rec
  /\ UNCHANGED <<gs, cv, apart, celeryInstalled, sub, task, poll, resp>>

SatTaskTiles(j) ==
  /\ run[j].kind = "celery" /\ rec[j].coll = "sat" /\ run[j].pc = "tiles"
  /\ Enter(j, "tiles")
  /\ \/ SatTaskExcept(j, "Failed to fetch OpenStreetMap tiles")
     \/ SatTaskExcept(j, "Map file not found")
     \/ \E x \in ExcMsgs : SatTaskExcept(j, x)
     \/ /\ run' = [run EXCEPT ![j].pc = "publish", ![j].cp = 60]
        /\ UNCHANGED rec
  /\ UNCHANGED <<gs, cv, apart, celeryInstalled, sub, task, poll, resp>>

SatTaskClassify(j) ==
  /\ run[j].kind = "celery" /\ rec[j].coll = "sat" /\ run[j].pc = "classify"
  /\ Enter(j, "classify")
  /\ \/ SatTaskExcept(j, "Green space calculation failed")
     \/ /\ rec' = [rec EXCEPT ![j] = update_analysis_status_sync(@, "completed",
                      ("status" :> "completed") @@ SatResultData)]
        /\ run' = [run EXCEPT ![j].pc = "return", ![j].result = "completed",
                              ![j].gsp = "pct"]
  /\ UNCHANGED <<gs, cv, apart, celeryInstalled, sub, task, poll, resp>>

analyze_satellite_task(j) ==
  \/ SatTaskConnect(j) \/ SatTaskGeocode(j) \/ SatTaskTiles(j) \/ SatTaskClassify(j)

\* ---------------------------------------------------------------------------
\* StatusResolver: get_task_status
\* ---------------------------------------------------------------------------
\* get_neighborhood_analysis / get_satellite_analysis: find_one by _id
FindOne(coll, id) ==
  IF id.t = "oid" /\ id.n \in Jobs /\ rec[id.n].exists /\ rec[id.n].coll = coll
    THEN rec[id.n] ELSE NoRecord

\* a variant that hands the record on as result whatever its status
RecordResponse_AlwaysResult(task_id, analysis_id, analysis, path, queried) ==
  [code |-> 200, path |-> path, backend_queried |-> queried, task_id |-> task_id,
   analysis_id |-> analysis_id, status |-> analysis.status,
   progress |-> analysis.progress, result |-> "record", error |-> analysis.error]

\* _nbr_response and _sat_response (status, progress, result, error agree)
RecordResponse(task_id, analysis_id, analysis, path, queried) ==
  [code |-> 200, path |-> path, backend_queried |-> queried, task_id |-> task_id,
   analysis_id |-> analysis_id, status |-> analysis.status,
   progress |-> analysis.progress,
   result |-> IF analysis.status = "completed" THEN "record" ELSE NULL,
   error |-> analysis.error]

\* raise HTTPException(status_code=404, detail={... "troubleshooting" ...})
NotFound(task_id, queried) ==
  [NoResp EXCEPT !.code = 404, !.task_id = task_id, !.backend_queried = queried]

\* AsyncResult(task_id).state / .info: the backend's entry for the id; an id the
\* backend has no entry for is PENDING with no payload
BackendMeta(task_id) ==
  IF ~task_id.marker /\ task_id.body.t = "uuid" /\ task_id.body.n \in Jobs
     /\ task[task_id.body.n].state # "NONE"
    THEN task[task_id.body.n] ELSE [NoTask EXCEPT !.state = "PENDING"]

\* state.lower() for the states a result backend stores
Lower(state) ==
  CASE state = "PENDING" -> "pending"
    [] state = "STARTED" -> "started"
    [] state = "PROGRESS" -> "progress"
    [] state = "SUCCESS" -> "success"
    [] state = "FAILURE" -> "failure"
    [] state = "RETRY" -> "retry"
    [] state = "REVOKED" -> "revoked"
    [] OTHER -> state

\* a variant of the table without its last two entries
status_map_Short(state) ==
  CASE state = "PENDING" -> "pending"
    [] state = "STARTED" -> "processing"
    [] state = "PROGRESS" -> "processing"
    [] state = "SUCCESS" -> "completed"
    [] state = "FAILURE" -> "failed"
    [] OTHER -> Lower(state)

\* status_map.get(state, state.lower())
status_map(state) ==
  CASE state = "PENDING" -> "pending"
    [] state = "STARTED" -> "processing"
    [] state = "PROGRESS" -> "processing"
    [] state = "SUCCESS" -> "completed"
    [] state = "FAILURE" -> "failed"
    [] state = "RETRY" -> "processing"
    [] state = "REVOKED" -> "failed"
    [] OTHER -> Lower(state)

\* info.get("progress", 50) on the payload the backend holds now: the PROGRESS
\* meta, or the dict the task returned (progress 100 when it has the key)
InfoProgress(info) ==
  IF info.state = "PROGRESS" THEN info.progress
  ELSE IF info.has_progress THEN 100 ELSE 50

\* the progress of the Celery branch: `state` was read first, `info` is read now;
\* the payload of PENDING is None, of STARTED a dict without "progress"
CeleryProgress(state, info) ==
  IF state = "PROGRESS" /\ info.state \in {"PROGRESS", "SUCCESS"}
    THEN InfoProgress(info)
    ELSE IF state = "SUCCESS" THEN 100 ELSE 0

CeleryResponse(task_id, state, info) ==
  [code |-> 200, path |-> 2, backend_queried |-> TRUE, task_id |-> task_id,
   analysis_id |-> NULL, status |-> status_map(state),
   progress |-> CeleryProgress(state, info),
   result |-> IF state = "SUCCESS" THEN info.result ELSE NULL,
   \* _extract_message(celery_task.info, state): str() of the stored exception
   error |-> IF state = "FAILURE" THEN "exc" ELSE NULL]

\* a variant of path 1 that looks in the neighbourhood collection only
Path1_NbrOnly(task_id) ==
  IF ~task_id.marker THEN NoResp
  ELSE IF FindOne("nbr", task_id.body).exists
    THEN RecordResponse(task_id, task_id.body, FindOne("nbr", task_id.body), 1, FALSE)
  ELSE NoResp

\* path 1: the handle carries the marker and one of the collections has the record
Path1(task_id) ==
  IF ~task_id.marker THEN NoResp
  ELSE IF FindOne("nbr", task_id.body).exists
    THEN RecordResponse(task_id, task_id.body, FindOne("nbr", task_id.body), 1, FALSE)
  ELSE IF FindOne("sat", task_id.body).exists
    THEN RecordResponse(task_id, task_id.body, FindOne("sat", task_id.body), 1, FALSE)
  ELSE NoResp

\* the handle itself taken as a record id (a marker handle is no ObjectId)
BareId(task_id) == IF task_id.marker THEN Oid(0) ELSE task_id.body

\* a variant of path 3 that looks in the neighbourhood collection only
Path3_NbrOnly(task_id, queried) ==
  IF FindOne("nbr", BareId(task_id)).exists
    THEN RecordResponse(task_id, BareId(task_id), FindOne("nbr", BareId(task_id)), 3, queried)
  ELSE NotFound(task_id, queried)

\* path 3: get_neighborhood_analysis(task_id), then get_satellite_analysis(task_id)
Path3(task_id, queried) ==
  IF FindOne("nbr", BareId(task_id)).exists
    THEN RecordResponse(task_id, BareId(task_id), FindOne("nbr", BareId(task_id)), 3, queried)
  ELSE IF FindOne("sat", BareId(task_id)).exists
    THEN RecordResponse(task_id, BareId(task_id), FindOne("sat", BareId(task_id)), 3, queried)
  ELSE NotFound(task_id, queried)

\* a client polls one task id
PollBegin(h) ==
  /\ poll.pc = "idle"
  /\ poll.task_id \in {NoHandle, h}
  /\ IF Path1(h).code = 200
       THEN /\ resp' = Path1(h)
            /\ poll' = [poll EXCEPT !.task_id = h]
       ELSE IF celeryInstalled
         THEN \/ \* celery_task.state is read
                 /\ poll' = [pc |-> "info", task_id |-> h,
                             state |-> BackendMeta(h).state]
                 /\ UNCHANGED resp
              \/ \* the backend cannot be reached: except Exception, then path 3
                 /\ resp' = Path3(h, TRUE)
                 /\ poll' = [poll EXCEPT !.task_id = h]
         ELSE /\ resp' = Path3(h, FALSE)
              /\ poll' = [poll EXCEPT !.task_id = h]
  /\ UNCHANGED <<gs, cv, apart, celeryInstalled, rec, sub, run, stages, task>>

\* celery_task.info / .result are read and the response is built
PollInfo ==
  /\ poll.pc = "info"
  /\ resp' = CeleryResponse(poll.task_id, poll.state, BackendMeta(poll.task_id))
  /\ poll' = [poll EXCEPT !.pc = "idle", !.state = NULL]
  /\ UNCHANGED <<gs, cv, apart, celeryInstalled, rec, sub, run, stages, task>>

get_task_status == (\E h \in Handles : PollBegin(h)) \/ PollInfo

Next ==
  \/ \E j \in Jobs :
       \/ analyze_neighborhood(j)
       \/ analyze_green_space(j)
       \/ process_neighborhood_sync(j)
       \/ process_green_space_analysis(j)
       \/ WorkerStart(j) \/ TaskPublish(j) \/ TaskRecord(j) \/ TaskReturn(j)
       \/ analyze_neighborhood_task(j)
       \/ analyze_satellite_task(j)
  \/ get_task_status

Spec == Init /\ [][Next]_vars

\* ---------------------------------------------------------------------------
\* The result backend seen from outside the task
\* ---------------------------------------------------------------------------
\* states the backend can come to report for an enqueued task without the task
\* function storing them: the entry expired (result_expires) or the broker
\* still holds the message (PENDING), the task is retried, the worker or a
\* time limit ended it (FAILURE), it was revoked
BackendOwnStates == {"PENDING", "RETRY", "FAILURE", "REVOKED"}

BackendReports(j) ==
  /\ task[j].state # "NONE"
  /\ \E st \in BackendOwnStates :
       /\ task[j].state # st
       /\ task' = [task EXCEPT ![j] = [NoTask EXCEPT !.state = st]]
  /\ UNCHANGED <<gs, cv, apart, celeryInstalled, rec, sub, run, stages, poll, resp>>

NextBackend == Next \/ \E j \in Jobs : BackendReports(j)

SpecBackend == Init /\ [][NextBackend]_vars

\* ---------------------------------------------------------------------------
\* The tile file of a green-space stage
\* ---------------------------------------------------------------------------
\* the four functions that fetch a raster tile and classify it
NbrStageFns == {"_analyze_green_space", "_run_green_space_sync"}
TileFns ==
  NbrStageFns \cup {"_process_green_space_analysis", "analyze_satellite_task"}

\* radius_m of the request
Radii == {500, 1000, 1500}

\* what get_osm_map_area can do: raise, return nothing, return the path of a
\* file that is not there, return the path of the file it wrote
FetchOutcomes == {"raised", "none", "missing", "file"}

\* what the call of analyze_osm_green_spaces can do in the eyes of its caller
ClassifyOutcomes == {"ok", "none", "raised"}

\* tile_radius = min(radius_m, 1000) in the neighbourhood pipeline's stage
TileRadius(fn, radius_m) ==
  IF fn \in NbrStageFns /\ radius_m > 1000 THEN 1000 ELSE radius_m

\* a stage call: the function, its position, the radius asked of the tile
\* server, map_path / temp_path, the tile file, how fetch, classification and
\* os.unlink came out, and what the stage leaves (its return value, or the
\* status it writes)
StageCall(fn, radius_m) ==
  [fn |-> fn, pc |-> "fetch", radius_m |-> radius_m, tile_radius |-> 0,
   map_path |-> NULL, file |-> "none", fetch |-> NULL, classify |-> NULL,
   unlink |-> NULL, outcome |-> NULL]

\* the outcome of a stage that did not get a tile: {} in the neighbourhood
\* pipeline, status failed in the standalone one
NoTileOutcome(fn) == IF fn \in NbrStageFns THEN "empty" ELSE "failed"

\* the outcome once analyze_osm_green_spaces has been called
ClassifiedOutcome(fn, c) ==
  IF fn \in NbrStageFns
    THEN IF c = "ok" THEN "result" ELSE "empty"
    ELSE IF c = "ok" THEN "completed" ELSE "failed"

\* map_path = get_osm_map_area(...), and the test `not map_path or not exists`
TileFetch ==
  /\ gs.pc = "fetch"
  /\ \E f \in FetchOutcomes :
       LET l == [gs EXCEPT !.fetch = f,
                           !.tile_radius = TileRadius(gs.fn, gs.radius_m),
                           !.map_path = IF f \in {"missing", "file"} THEN "tile" ELSE NULL,
                           !.file = IF f = "file" THEN "present" ELSE "none"]
       IN IF f = "file"
            THEN gs' = [l EXCEPT !.pc = "classify"]
            ELSE gs' = [l EXCEPT !.outcome = NoTileOutcome(gs.fn),
                                 \* _process_green_space_analysis fetches before
                                 \* its try/finally: there is nothing to clean up
                                 !.pc = IF gs.fn = "_process_green_space_analysis"
                                          THEN "done" ELSE "finally"]
  /\ UNCHANGED <<pipeline, cv, apart>>

\* result = analyze_osm_green_spaces(map_path, ...), inside the try
TileClassify ==
  /\ gs.pc = "classify"
  /\ \E c \in ClassifyOutcomes :
       gs' = [gs EXCEPT !.classify = c, !.outcome = ClassifiedOutcome(gs.fn, c),
                        !.pc = "finally"]
  /\ UNCHANGED <<pipeline, cv, apart>>

\* a variant that removes the tile only after a successful classification
Cleanup_OnSuccessOnly(l, unlinked) ==
  IF l.classify = "ok" /\ l.file = "present"
    THEN [l EXCEPT !.unlink = IF unlinked THEN "ok" ELSE "raised",
                   !.file = IF unlinked THEN "deleted" ELSE "present", !.pc = "done"]
    ELSE [l EXCEPT !.pc = "done"]

\* the finally block: os.unlink(map_path) inside try / except: pass.  The
\* neighbourhood stages and analyze_satellite_task test `map_path and
\* os.path.exists(map_path)` first; _process_green_space_analysis reaches its
\* finally only with the file there
Cleanup(l, unlinked) ==
  IF l.map_path # NULL /\ l.file = "present"
    THEN [l EXCEPT !.unlink = IF unlinked THEN "ok" ELSE "raised",
                   !.file = IF unlinked THEN "deleted" ELSE "present", !.pc = "done"]
    ELSE [l EXCEPT !.pc = "done"]

TileFinally ==
  /\ gs.pc = "finally"
  /\ \E unlinked \in BOOLEAN : gs' = Cleanup(gs, unlinked)
  /\ UNCHANGED <<pipeline, cv, apart>>

InitTile ==
  /\ celeryInstalled = FALSE
  /\ rec = [j \in Jobs |-> NoRecord]
  /\ sub = [j \in Jobs |-> NoSub]
  /\ run = [j \in Jobs |-> NoRun]
  /\ stages = [j \in Jobs |-> {}]
  /\ task = [j \in Jobs |-> NoTask]
  /\ poll = NoPoll
  /\ resp = NoResp
  /\ cv = NoCall
  /\ NoneApart
  /\ gs \in {StageCall(fn, r) : fn \in TileFns, r \in Radii}

NextTile == TileFetch \/ TileClassify \/ TileFinally

SpecTile == InitTile /\ [][NextTile]_vars

\* ---------------------------------------------------------------------------
\* GreenSpaceClassifier: analyze_osm_green_spaces
\* ---------------------------------------------------------------------------
\* width and height of the images considered
ImgW == 3
ImgH == 1

\* kernel = np.ones((5, 5), np.uint8)
KernelSize == 5

Pixels == (0..(ImgW - 1)) \X (0..(ImgH - 1))

\* colours of the tiles considered, as (R, G, B): black, a park green, a wood green
Black == <<0, 0, 0>>
ParkGreen == <<200, 240, 200>>
WoodGreen == <<150, 200, 120>>
Palette == {Black, ParkGreen, WoodGreen}

Images == [Pixels -> Palette]

GreenTypes == {"parks_grass", "forests_woods", "recreation", "natural_areas"}

\* green_ranges[green_type]["rgb_ranges"]
RgbRanges(green_type) ==
  CASE green_type = "parks_grass" ->
         {<<<<180, 230, 180>>, <<230, 255, 230>>>>,
          <<<<190, 240, 190>>, <<210, 255, 210>>>>,
          <<<<195, 225, 155>>, <<215, 245, 175>>>>}
    [] green_type = "forests_woods" ->
         {<<<<120, 180, 100>>, <<180, 220, 180>>>>,
          <<<<130, 190, 150>>, <<180, 215, 170>>>>,
          <<<<100, 170, 90>>, <<160, 210, 140>>>>}
    [] green_type = "recreation" ->
         {<<<<165, 200, 150>>, <<185, 220, 170>>>>,
          <<<<150, 190, 140>>, <<180, 215, 165>>>>}
    [] OTHER ->
         {<<<<210, 235, 200>>, <<230, 250, 225>>>>,
          <<<<200, 230, 190>>, <<225, 245, 220>>>>}

\* green_ranges[green_type]["hsv_ranges"]
HsvRanges(green_type) ==
  CASE green_type = "parks_grass" ->
         {<<<<30, 15, 150>>, <<90, 100, 255>>>>, <<<<35, 20, 180>>, <<75, 80, 255>>>>}
    [] green_type = "forests_woods" ->
         {<<<<30, 25, 120>>, <<90, 150, 230>>>>, <<<<35, 30, 100>>, <<80, 130, 220>>>>}
    [] green_type = "recreation" -> {<<<<32, 20, 150>>, <<75, 90, 230>>>>}
    [] OTHER -> {<<<<30, 10, 180>>, <<85, 60, 255>>>>}

Max3(a, b, c) == IF a >= b /\ a >= c THEN a ELSE IF b >= c THEN b ELSE c
Min3(a, b, c) == IF a <= b /\ a <= c THEN a ELSE IF b <= c THEN b ELSE c

\* a / b rounded to the nearest integer (a >= 0, b > 0)
RoundDiv(a, b) == (2 * a + b) \div (2 * b)

\* cv2.cvtColor(image, cv2.COLOR_RGB2HSV) on one 8-bit pixel: V the maximum,
\* S = 255 * (V - min) / V, H in 0..179 (degrees halved), in 12-bit fixed point
RGB2HSV(px) ==
  LET r == px[1]
      g == px[2]
      b == px[3]
      v == Max3(r, g, b)
      diff == v - Min3(r, g, b)
      sdiv == IF v = 0 THEN 0 ELSE RoundDiv(255 * 4096, v)
      hdiv == IF diff = 0 THEN 0 ELSE RoundDiv(180 * 4096, 6 * diff)
      h0 == IF v = r THEN g - b
            ELSE IF v = g THEN (b - r) + 2 * diff
            ELSE (r - g) + 4 * diff
      h1 == (h0 * hdiv + 2048) \div 4096
  IN <<IF h1 < 0 THEN h1 + 180 ELSE h1, (diff * sdiv + 2048) \div 4096, v>>

\* cv2.inRange on one pixel: every channel within its bounds, both included
inRange(px, lower, upper) ==
  \A c \in 1..3 : lower[c] <= px[c] /\ px[c] <= upper[c]

\* the mask of one green type before the morphology: the bitwise_or of the
\* inRange masks of its RGB ranges and of its HSV ranges
TypeMask(image, green_type) ==
  [p \in Pixels |->
     \/ \E rg \in RgbRanges(green_type) : inRange(image[p], rg[1], rg[2])
     \/ \E rg \in HsvRanges(green_type) : inRange(RGB2HSV(image[p]), rg[1], rg[2])]

\* the pixels under the kernel anchored at p that lie in the image
Window(p) ==
  {q \in Pixels : /\ q[1] - p[1] \in (0 - KernelSize \div 2)..(KernelSize \div 2)
                  /\ q[2] - p[2] \in (0 - KernelSize \div 2)..(KernelSize \div 2)}

\* cv2.dilate with the default border: pixels outside the image do not count
Dilate(mask) == [p \in Pixels |-> \E q \in Window(p) : mask[q]]

\* a variant of the erosion that takes the pixels outside the image as unset
Erode_ZeroBorder(mask) ==
  [p \in Pixels |->
     /\ Cardinality(Window(p)) = KernelSize * KernelSize
     /\ \A q \in Window(p) : mask[q]]

\* cv2.erode with the default border: pixels outside the image do not count
Erode(mask) == [p \in Pixels |-> \A q \in Window(p) : mask[q]]

\* cv2.morphologyEx(type_mask, cv2.MORPH_CLOSE, kernel) dilates and then
\* erodes, MORPH_OPEN erodes and then dilates: the four passes, in order
MorphPasses == <<"close_dilate", "close_erode", "open_erode", "open_dilate">>

MorphPass(pass, mask) ==
  IF pass \in {"close_dilate", "open_dilate"} THEN Dilate(mask) ELSE Erode(mask)

\* what follows pass number i
AfterPass(i) == IF i < Len(MorphPasses) THEN MorphPasses[i + 1] ELSE "measure"

\* a variant that hands on the first mask instead of combining them
combine_green_masks_First(green_masks) == green_masks["parks_grass"]

\* combine_green_masks: the bitwise_or of the masks
combine_green_masks(green_masks) ==
  [p \in Pixels |-> \E t \in GreenTypes : green_masks[t][p]]

\* np.sum(mask > 0)
CountPixels(mask) == Cardinality({p \in Pixels : mask[p]})

\* round((pixels / total_pixels) * 100, 2), in hundredths of a percent
Percentage(pixels, total_pixels) == RoundDiv(pixels * 10000, total_pixels)

\* exceptions that can be raised inside the function
Exceptions == {"cv2.error", "OSError", "ValueError"}

\* a variant of the handler that catches OpenCV's errors only
Catches_CvErrorOnly(exc) == exc = "cv2.error"

\* `except Exception`: every one of them derives from Exception
Catches(exc) == exc \in Exceptions

\* the dict analyze_osm_green_spaces returns (here before it is filled)
NoResult ==
  [green_space_percentage |-> 0, green_pixels |-> 0, total_pixels |-> 0,
   visualization_path |-> NULL, breakdown |-> [t \in GreenTypes |-> 0]]

\* a call: its position, whether the file decodes, the image, the masks of
\* detect_osm_green_areas_fixed before the morphology (type_masks) and as it
\* works on them (green_masks), where something raised, what the call returned
\* ("None" or "dict"), the dict, and the exception that left the function
ClassifierCall(readable, image) ==
  [pc |-> "imread", readable |-> readable, image |-> image,
   type_masks |-> [t \in GreenTypes |-> [p \in Pixels |-> FALSE]],
   green_masks |-> [t \in GreenTypes |-> [p \in Pixels |-> FALSE]],
   raised_in |-> NULL, returned |-> NULL, result |-> NoResult, escaped |-> NULL]

\* an exception raised inside the try of analyze_osm_green_spaces
CvRaise(l, where, exc) ==
  IF Catches(exc)
    THEN [l EXCEPT !.pc = "done", !.raised_in = where, !.returned = "None"]
    ELSE [l EXCEPT !.pc = "done", !.raised_in = where, !.escaped = exc]

\* image = cv2.imread(image_path); if image is None: return None
CvImread ==
  /\ cv.pc = "imread"
  /\ \/ /\ ~cv.readable
        /\ cv' = [cv EXCEPT !.pc = "done", !.returned = "None"]
     \/ /\ cv.readable
        /\ cv' = [cv EXCEPT !.pc = "detect"]
     \/ \E exc \in Exceptions : cv' = CvRaise(cv, "imread", exc)
  /\ UNCHANGED <<pipeline, gs, apart>>

\* green_masks = detect_osm_green_areas_fixed(image_rgb): the range masks
CvDetect ==
  /\ cv.pc = "detect"
  /\ \/ cv' = [cv EXCEPT !.pc = MorphPasses[1],
                          !.type_masks = [t \in GreenTypes |-> TypeMask(cv.image, t)],
                          !.green_masks = [t \in GreenTypes |-> TypeMask(cv.image, t)]]
     \/ \E exc \in Exceptions : cv' = CvRaise(cv, "detect", exc)
  /\ UNCHANGED <<pipeline, gs, apart>>

\* detect_osm_green_areas_fixed: one pass of the morphology over every mask
detect_osm_green_areas_fixed ==
  /\ \E i \in 1..Len(MorphPasses) :
       /\ cv.pc = MorphPasses[i]
       /\ cv' = [cv EXCEPT !.pc = AfterPass(i),
                           !.green_masks = [t \in GreenTypes |->
                                              MorphPass(MorphPasses[i], cv.green_masks[t])]]
  /\ UNCHANGED <<pipeline, gs, apart>>

\* combined_mask, total_pixels, green_pixels, green_percentage, breakdown
CvMeasure ==
  /\ cv.pc = "measure"
  /\ LET combined_mask == combine_green_masks(cv.green_masks)
         total_pixels == ImgW * ImgH
         green_pixels == CountPixels(combined_mask)
     IN cv' = [cv EXCEPT
                 !.pc = "visualize",
                 !.result = [green_space_percentage |-> Percentage(green_pixels, total_pixels),
                             green_pixels |-> green_pixels,
                             total_pixels |-> total_pixels,
                             visualization_path |-> NULL,
                             breakdown |-> [t \in GreenTypes |->
                                Percentage(CountPixels(cv.green_masks[t]), total_pixels)]]]
  /\ UNCHANGED <<pipeline, gs, apart>>

\* create_osm_green_visualization has a try of its own: it returns the path of
\* the file, or None when anything in it raised; then the dict is returned
CvVisualize ==
  /\ cv.pc = "visualize"
  /\ \E written \in BOOLEAN :
       cv' = [cv EXCEPT !.pc = "done", !.returned = "dict",
                        !.raised_in = IF written THEN NULL ELSE "visualization",
                        !.result.visualization_path =
                           IF written THEN "results/file" ELSE NULL]
  /\ UNCHANGED <<pipeline, gs, apart>>

InitCV ==
  /\ celeryInstalled = FALSE
  /\ rec = [j \in Jobs |-> NoRecord]
  /\ sub = [j \in Jobs |-> NoSub]
  /\ run = [j \in Jobs |-> NoRun]
  /\ stages = [j \in Jobs |-> {}]
  /\ task = [j \in Jobs |-> NoTask]
  /\ poll = NoPoll
  /\ resp = NoResp
  /\ gs = NoStage
  /\ NoneApart
  \* a file that decodes to one of the images, or one that does not decode
  /\ \/ \E image \in Images : cv = ClassifierCall(TRUE, image)
     \/ cv = ClassifierCall(FALSE, [p \in Pixels |-> Black])

NextCV ==
  CvImread \/ CvDetect \/ detect_osm_green_areas_fixed \/ CvMeasure \/ CvVisualize

SpecCV == InitCV /\ [][NextCV]_vars

\* ---------------------------------------------------------------------------
\* The client: poll_task_status
\* ---------------------------------------------------------------------------
\* largest max_wait considered, in seconds
MaxWait == 6

\* requests.get(..., timeout=5) and time.sleep(2)
RequestTimeout == 5
PollSleep == 2

\* what one GET /api/tasks/{task_id} can give the client: an exception (no
\* connection, timeout, a body that is no JSON), an answer other than 200, or
\* 200 with a status and a result
PollReplies ==
  {[kind |-> "raised", code |-> 0, status |-> NULL, result |-> NULL]}
    \cup [kind : {"http"}, code : {404, 500}, status : {NULL}, result : {NULL}]
    \cup [kind : {"http"}, code : {200},
          status : {"pending", "processing", "completed", "failed"},
          result : {NULL, "result"}]

\* no request has been answered yet
NoReply == [kind |-> "none", code |-> 0, status |-> NULL, result |-> NULL]

\* a call: its position, max_wait, time.time() - start_time, the last reply,
\* the number of requests sent and what the call returned
PollCall(max_wait) ==
  [pc |-> "while", max_wait |-> max_wait, elapsed |-> 0, reply |-> NoReply,
   requests |-> 0, returned |-> NULL]

\* while time.time() - start_time < max_wait: ... ; return None
PollWhile ==
  /\ cl.pc = "while"
  /\ cl' = IF cl.elapsed < cl.max_wait
             THEN [cl EXCEPT !.pc = "get"]
             ELSE [cl EXCEPT !.pc = "done", !.returned = "None"]
  /\ UNCHANGED <<pipeline, gs, cv, em, dbc, bw>>

\* a variant of the loop body that returns on completed only
PollHandle_CompletedOnly(l, reply) ==
  IF reply.kind = "http" /\ reply.code = 200 /\ reply.status = "completed"
    THEN [l EXCEPT !.pc = "done",
                   !.returned = IF reply.result # NULL THEN reply.result ELSE "{}"]
    ELSE [l EXCEPT !.pc = "sleep"]

\* the body of the try: return data.get("result") or {} on completed, None on
\* failed; everything else, an exception included, goes on to time.sleep
PollHandle(l, reply) ==
  IF reply.kind = "http" /\ reply.code = 200 /\ reply.status = "completed"
    THEN [l EXCEPT !.pc = "done",
                   !.returned = IF reply.result # NULL THEN reply.result ELSE "{}"]
  ELSE IF reply.kind = "http" /\ reply.code = 200 /\ reply.status = "failed"
    THEN [l EXCEPT !.pc = "done", !.returned = "None"]
  ELSE [l EXCEPT !.pc = "sleep"]

\* requests.get: the request takes up to its timeout and is a read on the
\* server
PollGet ==
  /\ cl.pc = "get"
  /\ \E reply \in PollReplies, took \in {0, RequestTimeout} :
       cl' = PollHandle([cl EXCEPT !.reply = reply, !.requests = @ + 1,
                                   !.elapsed = @ + took], reply)
  /\ UNCHANGED <<pipeline, gs, cv, em, dbc, bw>>

\* time.sleep(2)
PollSleeps ==
  /\ cl.pc = "sleep"
  /\ cl' = [cl EXCEPT !.pc = "while", !.elapsed = @ + PollSleep]
  /\ UNCHANGED <<pipeline, gs, cv, em, dbc, bw>>

InitPoll ==
  /\ celeryInstalled = FALSE
  /\ rec = [j \in Jobs |-> NoRecord]
  /\ sub = [j \in Jobs |-> NoSub]
  /\ run = [j \in Jobs |-> NoRun]
  /\ stages = [j \in Jobs |-> {}]
  /\ task = [j \in Jobs |-> NoTask]
  /\ poll = NoPoll
  /\ resp = NoResp
  /\ gs = NoStage
  /\ cv = NoCall
  /\ em = NoCall
  /\ dbc = NoCall
  /\ bw = NoCall
  /\ \E max_wait \in 0..MaxWait : cl = PollCall(max_wait)

poll_task_status == PollWhile \/ PollGet \/ PollSleeps

\* the call runs on: every statement of it returns (the request has a timeout)
SpecPoll == InitPoll /\ [][poll_task_status]_vars /\ WF_vars(poll_task_status)

\* ---------------------------------------------------------------------------
\* The message of the Celery branch of get_task_status: _extract_message
\* ---------------------------------------------------------------------------
\* the keys _extract_message looks at, in its order
MessageKeys == <<"status", "message", "detail">>

\* what a payload can hold under one of these keys: nothing (the key is not
\* there, or holds None), the empty string, a text
FieldValues(key) == {NULL, "", "text of " \o key}

\* celery_task.info: None, a dict (the PROGRESS meta, the dict a task returned),
\* the exception of a failed task, anything else the backend stored
Payloads ==
  {[type |-> ty, status |-> NULL, message |-> NULL, detail |-> NULL] :
     ty \in {"None", "Exception", "other"}}
    \cup [type : {"dict"}, status : FieldValues("status"),
          message : FieldValues("message"), detail : FieldValues("detail")]

\* the states a result backend stores
BackendStates ==
  {"PENDING", "STARTED", "PROGRESS", "SUCCESS", "FAILURE", "RETRY", "REVOKED"}

\* Python's truth value of info.get(key)
Truthy(value) == value \notin {NULL, ""}

\* f"Task {state.lower()}"
TaskState(state) == "Task " \o Lower(state)

\* a variant that prefers the message key to the status key
extract_message_MessageFirst(info, state) ==
  IF info.type = "None" THEN TaskState(state)
  ELSE IF info.type = "dict"
    THEN IF Truthy(info.message) THEN info.message
         ELSE IF Truthy(info.status) THEN info.status
         ELSE IF Truthy(info.detail) THEN info.detail
         ELSE TaskState(state)
  ELSE "str of " \o info.type

\* _extract_message(info, state)
extract_message(info, state) ==
  IF info.type = "None" THEN TaskState(state)
  ELSE IF info.type = "dict"
    THEN IF Truthy(info.status) THEN info.status
         ELSE IF Truthy(info.message) THEN info.message
         ELSE IF Truthy(info.detail) THEN info.detail
         ELSE TaskState(state)
  ELSE "str of " \o info.type

\* message = _extract_message(celery_task.info, state)
ExtractMessage ==
  /\ em.pc = "call"
  /\ em' = [em EXCEPT !.pc = "done", !.message = extract_message(em.info, em.state)]
  /\ UNCHANGED <<pipeline, gs, cv, cl, dbc, bw>>

InitMessage ==
  /\ celeryInstalled = TRUE
  /\ rec = [j \in Jobs |-> NoRecord]
  /\ sub = [j \in Jobs |-> NoSub]
  /\ run = [j \in Jobs |-> NoRun]
  /\ stages = [j \in Jobs |-> {}]
  /\ task = [j \in Jobs |-> NoTask]
  /\ poll = NoPoll
  /\ resp = NoResp
  /\ gs = NoStage
  /\ cv = NoCall
  /\ cl = NoCall
  /\ dbc = NoCall
  /\ bw = NoCall
  /\ \E info \in Payloads, state \in BackendStates :
       em = [pc |-> "call", info |-> info, state |-> state, message |-> NULL]

SpecMessage == InitMessage /\ [][ExtractMessage]_vars

\* ---------------------------------------------------------------------------
\* The job store connection: Database.connect and Database.get_database
\* ---------------------------------------------------------------------------
\* number of concurrent callers considered
MaxCallers == 3

Callers == 1..MaxCallers

\* class Database as the module is loaded, with no call under way.  client and
\* db hold the number of the AsyncIOMotorClient they belong to; created counts
\* the clients constructed, open holds those constructed and not closed; lock
\* is the caller inside `async with cls._lock`, 0 for none
DatabaseClass ==
  [client |-> 0, db |-> 0, is_connected |-> FALSE, lock |-> 0, created |-> 0,
   open |-> {}, call |-> [c \in Callers |-> [fn |-> NULL, pc |-> "idle", ret |-> 0]]]

\* the caller's coroutine moves on
Goes(d, c, pc) == [d EXCEPT !.call[c].pc = pc]

\* return cls.db, leaving the `async with` when the caller is inside it
Returns(d, c) ==
  [d EXCEPT !.call[c].pc = "returned", !.call[c].ret = d.db,
            !.lock = IF d.lock = c THEN 0 ELSE @]

\* a variant of the except branch that forgets the client
ConnectFailed_KeepsClient(d, c) ==
  [d EXCEPT !.is_connected = FALSE, !.lock = 0, !.call[c].pc = "raised"]

\* the except branch of connect: _is_connected = False, the client closed and
\* dropped, ConnectionError raised through the `async with`
ConnectFailed(d, c) ==
  [d EXCEPT !.is_connected = FALSE, !.open = @ \ {d.client}, !.client = 0,
            !.lock = 0, !.call[c].pc = "raised"]

\* a variant of the test under the lock that never finds a connection
AlreadyConnected_Never(d) == FALSE

\* if cls.client is not None and cls._is_connected
AlreadyConnected(d) == d.client # 0 /\ d.is_connected

\* the body of connect from the lock to its first await: the test, then the
\* constructor, which may raise, then cls.db, then the ping is awaited
UnderLock(d, c, constructed) ==
  LET l == [d EXCEPT !.lock = c]
  IN IF AlreadyConnected(l) THEN Returns(l, c)
     ELSE IF ~constructed THEN ConnectFailed(l, c)
     ELSE Goes([l EXCEPT !.client = l.created + 1, !.db = l.created + 1,
                         !.created = @ + 1, !.open = @ \cup {l.created + 1}],
               c, "ping")

\* connect up to its first suspension: the lock is taken at once when free
Connect(d, c, constructed) ==
  IF d.lock = 0 THEN UnderLock(d, c, constructed) ELSE Goes(d, c, "lock")

\* a caller calls Database.get_database() or Database.connect()
DbCall(c) ==
  /\ dbc.call[c].pc = "idle"
  /\ \E fn \in {"get_database", "connect"}, constructed \in BOOLEAN :
       LET d == [dbc EXCEPT !.call[c].fn = fn]
       IN dbc' = IF fn = "get_database" /\ d.is_connected
                   THEN Returns(d, c)
                   ELSE Connect(d, c, constructed)
  /\ UNCHANGED <<pipeline, gs, cv, cl, em, bw>>

\* a caller waiting for the lock gets it
DbLock(c) ==
  /\ dbc.call[c].pc = "lock" /\ dbc.lock = 0
  /\ \E constructed \in BOOLEAN : dbc' = UnderLock(dbc, c, constructed)
  /\ UNCHANGED <<pipeline, gs, cv, cl, em, bw>>

\* await cls.client.admin.command("ping") comes back
DbPing(c) ==
  /\ dbc.call[c].pc = "ping"
  /\ \/ dbc' = Goes([dbc EXCEPT !.is_connected = TRUE], c, "list")
     \/ dbc' = ConnectFailed(dbc, c)
  /\ UNCHANGED <<pipeline, gs, cv, cl, em, bw>>

\* await cls.db.list_collection_names() comes back
DbList(c) ==
  /\ dbc.call[c].pc = "list"
  /\ \/ dbc' = Returns(dbc, c)
     \/ dbc' = ConnectFailed(dbc, c)
  /\ UNCHANGED <<pipeline, gs, cv, cl, em, bw>>

InitDatabase ==
  /\ celeryInstalled = FALSE
  /\ rec = [j \in Jobs |-> NoRecord]
  /\ sub = [j \in Jobs |-> NoSub]
  /\ run = [j \in Jobs |-> NoRun]
  /\ stages = [j \in Jobs |-> {}]
  /\ task = [j \in Jobs |-> NoTask]
  /\ poll = NoPoll
  /\ resp = NoResp
  /\ gs = NoStage
  /\ cv = NoCall
  /\ cl = NoCall
  /\ em = NoCall
  /\ bw = NoCall
  /\ dbc = DatabaseClass

NextDatabase == \E c \in Callers : DbCall(c) \/ DbLock(c) \/ DbPing(c) \/ DbList(c)

SpecDatabase == InitDatabase /\ [][NextDatabase]_vars

\* ---------------------------------------------------------------------------
\* batch_workflow
\* ---------------------------------------------------------------------------
\* if len(addresses) > 10
BatchLimit == 10

\* what the POST of trigger_analysis to /api/neighborhood/analyze can come to:
\* the 202 answer, httpx.RequestError, an error status, a body that is no JSON
TriggerOutcomes == {"queued", "unreachable", "http_error", "bad_json"}

\* a call with a list of `length` addresses, the ones at the places in `blank`
\* being empty strings: its position, the state of every _trigger_one
\* ("none", "posted", "queued", "failed"), the places whose POST was sent, and
\* the response
BatchCall(length, blank) ==
  [pc |-> "start", length |-> length, blank |-> blank,
   one |-> [i \in 1..length |-> "none"], posted |-> {},
   code |-> 0, total |-> 0, triggered |-> {}, failed |-> {}]

\* a variant of _trigger_one without its try: the exception leaves gather
TriggerFailed_Propagates(b, i) ==
  [b EXCEPT !.pc = "done", !.code = 500, !.one[i] = "raised"]

\* except Exception in _trigger_one: {"address": addr, "status": "failed", ...}
TriggerFailed(b, i) == [b EXCEPT !.one[i] = "failed"]

RECURSIVE TriggerAll(_, _)
\* asyncio.gather starts every _trigger_one in turn; each runs to the await of
\* its POST, or fails on `not address` before sending anything
TriggerAll(b, i) ==
  IF i > b.length THEN b
  ELSE TriggerAll(IF i \in b.blank
                    THEN TriggerFailed(b, i)
                    ELSE [b EXCEPT !.one[i] = "posted", !.posted = @ \cup {i}],
                  i + 1)

\* the checks on the list, then gather
BatchStart ==
  /\ bw.pc = "start"
  /\ bw' = IF bw.length = 0 \/ bw.length > BatchLimit
             THEN [bw EXCEPT !.pc = "done", !.code = 400]
             ELSE LET b == TriggerAll(bw, 1)
                  IN IF b.pc = "done" THEN b ELSE [b EXCEPT !.pc = "gather"]
  /\ UNCHANGED <<pipeline, gs, cv, cl, em, dbc>>

\* the POST of one address comes back
TriggerReply(i) ==
  /\ bw.pc = "gather" /\ i <= bw.length /\ bw.one[i] = "posted"
  /\ \E o \in TriggerOutcomes :
       bw' = IF o = "queued" THEN [bw EXCEPT !.one[i] = "queued"]
             ELSE TriggerFailed(bw, i)
  /\ UNCHANGED <<pipeline, gs, cv, cl, em, dbc>>

\* gather has every result: the response
BatchReturn ==
  /\ bw.pc = "gather" /\ \A i \in 1..bw.length : bw.one[i] \in {"queued", "failed"}
  /\ bw' = [bw EXCEPT !.pc = "done", !.code = 200, !.total = bw.length,
                      !.triggered = {i \in 1..bw.length : bw.one[i] # "failed"},
                      !.failed = {i \in 1..bw.length : bw.one[i] = "failed"}]
  /\ UNCHANGED <<pipeline, gs, cv, cl, em, dbc>>

InitBatch ==
  /\ celeryInstalled = FALSE
  /\ rec = [j \in Jobs |-> NoRecord]
  /\ sub = [j \in Jobs |-> NoSub]
  /\ run = [j \in Jobs |-> NoRun]
  /\ stages = [j \in Jobs |-> {}]
  /\ task = [j \in Jobs |-> NoTask]
  /\ poll = NoPoll
  /\ resp = NoResp
  /\ gs = NoStage
  /\ cv = NoCall
  /\ cl = NoCall
  /\ em = NoCall
  /\ dbc = NoCall
  \* lists of up to one more than the limit, with no empty address or with one
  \* in the first place
  /\ \E length \in 0..(BatchLimit + 1), blank \in {{}, {1}} :
       /\ blank \subseteq 1..length
       /\ bw = BatchCall(length, blank)

batch_workflow == BatchStart \/ (\E i \in 1..BatchLimit : TriggerReply(i)) \/ BatchReturn

SpecBatch == InitBatch /\ [][batch_workflow]_vars

\* ---------------------------------------------------------------------------
\* Properties
\* ---------------------------------------------------------------------------
Terminal == {"completed", "failed"}

\* the task_id the submission of job j returned
SubHandle(j) == [marker |-> sub[j].marker, body |-> sub[j].body]

\* C1: a neighbourhood job record starts at pending, its status changes only by
\* the steps pending -> processing, processing -> completed and
\* processing -> failed, and a record whose status is completed or failed is
\* never changed again.
C1_StatusChain ==
  [][\A j \in Jobs :
       /\ (~rec[j].exists /\ rec'[j].exists /\ rec'[j].coll = "nbr")
            => rec'[j].status = "pending"
       /\ (rec[j].exists /\ rec[j].coll = "nbr") =>
            /\ rec[j].status \in Terminal => rec'[j] = rec[j]
            /\ rec'[j].status # rec[j].status =>
                 <<rec[j].status, rec'[j].status>> \in
                   {<<"pending", "processing">>, <<"processing", "completed">>,
                    <<"processing", "failed">>}]_vars

\* C2: for a fixed task_id of a neighbourhood job, with the analysis_ marker or
\* issued by the backend, the progress of a response of get_task_status is
\* never below the progress of the response before it.
C2_ProgressNeverDecreases ==
  [][(/\ resp.code = 200 /\ resp'.code = 200 /\ resp'.task_id = resp.task_id
      /\ (resp.task_id.marker \/ resp.task_id.body.t = "uuid")
      /\ \A j \in Jobs : resp.task_id.body.n = j => rec[j].coll # "sat")
       => resp'.progress >= resp.progress]_vars

\* C3: a job record (of either pipeline, run on either substrate) whose status
\* is failed has its error set and its progress at 100.
C3_FailedHasErrorAndFullProgress ==
  \A j \in Jobs :
    (rec[j].exists /\ rec[j].status = "failed")
      => (rec[j].error # NULL /\ rec[j].progress = 100)

C3_Witness ==
  \E j \in Jobs : rec[j].status = "failed" /\ rec[j].coll = "nbr" /\ run[j].pc = "done"

\* C4: a job record whose status is completed has progress 100 and its
\* completed_at set.
C4_CompletedHasFullProgressAndTime ==
  \A j \in Jobs :
    (rec[j].exists /\ rec[j].status = "completed")
      => (rec[j].progress = 100 /\ rec[j].completed_at)

C4_Witness ==
  \E j \in Jobs :
    rec[j].status = "completed" /\ run[j].kind = "inproc" /\ rec[j].coll = "nbr"

\* C5: a neighbourhood executor run that has ended has left the job record
\* completed or failed, and failed with its error set.
C5_EndedRunIsTerminal ==
  \A j \in Jobs :
    (run[j].pc = "done" /\ rec[j].coll = "nbr")
      => /\ rec[j].status \in Terminal
         /\ rec[j].status = "failed" => rec[j].error # NULL

\* C6: once the amenity lookup has reported an error, the record is failed with
\* exactly that message and progress 100, the run has stopped, no walk-score,
\* green-space or map stage has been entered and green_space_percentage is unset.
C6_LookupErrorIsFatal ==
  \A j \in Jobs :
    run[j].amenity \in AmenityErrors
      => /\ rec[j].status = "failed"
         /\ rec[j].error = run[j].amenity
         /\ rec[j].progress = 100
         /\ run[j].pc \in {"return", "done"}
         /\ stages[j] \cap {"walk_score", "green_space", "buildings", "map"} = {}
         /\ rec[j].green_space_percentage = NULL

C6_Witness ==
  \E j \in Jobs :
    /\ run[j].amenity = "address not found" /\ run[j].kind = "celery"
    /\ run[j].pc = "done" /\ rec[j].error = "address not found"

\* C7: when the record of a neighbourhood job is completed or failed and get_task_status,
\* asked with the task_id of the submission, reports a terminal status, it is
\* the record's status, and for a failed record the record's error.
C7_ResolverReportsRecordStatus ==
  \A j \in Jobs :
    (/\ sub[j].code = 202 /\ resp.code = 200 /\ resp.task_id = SubHandle(j)
     /\ rec[j].coll = "nbr"
     /\ rec[j].status \in Terminal /\ resp.status \in Terminal)
      => /\ resp.status = rec[j].status
         /\ rec[j].status = "failed" => resp.error = rec[j].error

\* C8: a submission made while the backend is unavailable (celery not
\* importable, or the enqueue call failing by import or by connection) is
\* answered with the in-process task_id and has the in-process run scheduled.
C8_SubmissionFallsBack ==
  \A j \in Jobs :
    (sub[j].code # 0 /\ sub[j].enqueue # "ok")
      => /\ sub[j].code = 202
         /\ SubHandle(j) = [marker |-> TRUE, body |-> Oid(j)]
         /\ run[j].kind = "inproc"

\* C9: get_task_status asked with a task_id that was never issued (no record
\* in either collection, no backend task) answers 404.
C9_UnknownHandleNotFound ==
  (resp.code # 0 /\ resp.task_id.body.n = 0) => resp.code = 404

\* C10: a call of get_task_status with a handle analysis_<id> whose record
\* exists answers at once from the record (path 1), without querying the
\* backend, and with the id embedded in the handle as analysis_id.
C10_MarkerHandleAnswersFromRecord ==
  [][(/\ poll.pc = "idle" /\ <<poll, resp>>' # <<poll, resp>>
      /\ poll'.task_id.marker
      /\ (FindOne("nbr", poll'.task_id.body).exists
            \/ FindOne("sat", poll'.task_id.body).exists))
       => /\ poll'.pc = "idle"
          /\ resp'.code = 200 /\ resp'.path = 1 /\ ~resp'.backend_queried
          /\ resp'.task_id = poll'.task_id
          /\ resp'.analysis_id = poll'.task_id.body
          /\ resp'.status = rec[poll'.task_id.body.n].status]_vars

C10_Witness ==
  /\ celeryInstalled /\ resp.code = 200 /\ resp.path = 1 /\ resp.task_id.marker
  /\ ~resp.backend_queried
  /\ \E j \in Jobs : resp.analysis_id = Oid(j) /\ run[j].kind = "celery"

\* C11: with no backend configured, a call of get_task_status with a bare job
\* id (no analysis_ marker) whose record exists answers by the direct lookup
\* (path 3) with the record's status, and with task_id and analysis_id both
\* the id that was given.
C11_BareIdResolvesByDirectLookup ==
  [][(/\ poll.pc = "idle" /\ <<poll, resp>>' # <<poll, resp>>
      /\ ~celeryInstalled /\ ~poll'.task_id.marker
      /\ (FindOne("nbr", poll'.task_id.body).exists
            \/ FindOne("sat", poll'.task_id.body).exists))
       => /\ poll'.pc = "idle"
          /\ resp'.code = 200 /\ resp'.path = 3 /\ ~resp'.backend_queried
          /\ resp'.task_id = poll'.task_id
          /\ resp'.analysis_id = poll'.task_id.body
          /\ resp'.status = rec[poll'.task_id.body.n].status
          /\ resp'.progress = rec[poll'.task_id.body.n].progress]_vars

C11_Witness ==
  /\ ~celeryInstalled /\ resp.code = 200 /\ resp.path = 3
  /\ ~resp.task_id.marker /\ resp.analysis_id = resp.task_id.body
  /\ \E j \in Jobs : resp.task_id.body = Oid(j) /\ resp.status = "completed"

\* C12: when calculate_walk_score raises during an executor run, the run goes
\* on: the job record does not become failed, and the run that has ended has
\* left it completed with walk_score null.
C12_WalkScoreFailureIsNotFatal ==
  \A j \in Jobs :
    run[j].walk = "raised"
      => /\ rec[j].status # "failed"
         /\ run[j].pc = "done" => (rec[j].status = "completed" /\ rec[j].walk_score = NULL)

\* C13: when the green-space stage of a neighbourhood job fails (the tile fetch
\* raises or returns nothing, the classifier answers None), the job record
\* does not become failed, and the run that has ended has left it completed
\* with green_space_percentage, green_space_breakdown and
\* green_space_visualization null and with walk_score and amenities set.
C13_GreenSpaceFailureIsNotFatal ==
  \A j \in Jobs :
    run[j].green \in GreenFailures
      => /\ rec[j].status # "failed"
         /\ run[j].pc = "done"
              => /\ rec[j].status = "completed"
                 /\ rec[j].green_space_percentage = NULL
                 /\ rec[j].green_space_breakdown = NULL
                 /\ rec[j].green_space_visualization = NULL
                 /\ rec[j].walk_score # NULL
                 /\ rec[j].amenities # NULL

C13_Witness ==
  \E j \in Jobs :
    /\ run[j].green = "raised" /\ run[j].pc = "done" /\ run[j].kind = "celery"
    /\ rec[j].status = "completed" /\ rec[j].walk_score = "score"

\* C14: when the map is requested and create_map_visualization raises or
\* returns no existing file, the run that has ended has left the job
\* completed with map_path null, on either executor.
C14_MapFailureLeavesMapPathNull ==
  \A j \in Jobs :
    (run[j].map \in {"nothing", "raised"} /\ run[j].pc = "done")
      => (rec[j].status = "completed" /\ rec[j].map_path = NULL)

\* C15: when a green-space stage (_analyze_green_space, _run_green_space_sync,
\* _process_green_space_analysis, analyze_satellite_task) has fetched a tile
\* file and has ended, the file is deleted, whether the classification gave a
\* result, gave nothing or raised, unless os.unlink itself failed; with that
\* failure too the stage ends with the outcome the classification alone
\* decides.
C15_TileFileRemovedOnEveryPath ==
  (gs.pc = "done" /\ gs.fetch = "file")
    => /\ gs.file = "deleted" \/ gs.unlink = "raised"
       /\ gs.unlink # NULL
       /\ gs.outcome \in {"result", "completed"} <=> gs.classify = "ok"

C15_Witness ==
  /\ gs.pc = "done" /\ gs.fetch = "file" /\ gs.classify = "raised"
  /\ gs.file = "deleted" /\ gs.fn = "_process_green_space_analysis"

\* C16: every job record a submission has created has exactly one executor
\* run scheduled for it: the Celery task (then the backend has the task) or
\* the in-process background task (then it has none), never none.
C16_OneExecutorPerRecord ==
  \A j \in Jobs :
    rec[j].exists
      => /\ run[j].kind \in {"celery", "inproc"}
         /\ run[j].kind = "celery" <=> task[j].state # "NONE"

\* C17: in every response of get_task_status, by whichever of the three paths,
\* result is set only when the reported status is completed and error is set
\* only when the reported status is failed.
C17_ResultAndErrorMatchStatus ==
  resp.code = 200
    => /\ resp.result # NULL => resp.status = "completed"
       /\ resp.error # NULL => resp.status = "failed"

C17_Witness ==
  /\ resp.code = 200 /\ resp.path = 2
  /\ resp.error # NULL /\ resp.status = "failed" /\ resp.result = NULL

\* C18: whatever state the backend reports for a task and whatever job record
\* is read, the status in a response of get_task_status is one of pending,
\* processing, completed, failed.
C18_StatusInTaxonomy ==
  resp.code = 200 => resp.status \in {"pending", "processing", "completed", "failed"}

C18_Witness ==
  /\ resp.code = 200 /\ resp.path = 2 /\ resp.status = "failed" /\ resp.error = NULL

\* C19: analyze_osm_green_spaces lets no exception out: whether the file cannot
\* be read, the mask detection raises or writing the visualization fails, the
\* call ends with None or with a dict holding green_space_percentage,
\* green_pixels, total_pixels and a breakdown entry for every green type.
C19_ClassifierNeverRaises ==
  cv.pc = "done"
    => /\ cv.escaped = NULL
       /\ \/ cv.returned = "None"
          \/ /\ cv.returned = "dict"
             /\ cv.result.total_pixels = ImgW * ImgH
             /\ cv.result.green_pixels \in 0..cv.result.total_pixels
             /\ cv.result.green_space_percentage \in 0..10000
             /\ DOMAIN cv.result.breakdown = GreenTypes
             /\ \A t \in GreenTypes : cv.result.breakdown[t] \in 0..10000

C19_Witness ==
  /\ cv.pc = "done" /\ cv.readable /\ cv.raised_in = "detect"
  /\ cv.returned = "None" /\ cv.escaped = NULL

\* no pixel of the image is inside any colour range of any green type
NoRangeMatches(image) ==
  \A t \in GreenTypes : \A p \in Pixels : ~TypeMask(image, t)[p]

\* every pixel of the image is inside an RGB range of parks_grass
AllInParksGrassRgb(image) ==
  \A p \in Pixels :
    \E rg \in RgbRanges("parks_grass") : inRange(image[p], rg[1], rg[2])

\* C20: for an image that decodes and a call in which nothing raises before
\* the measurement, a dict is returned and: if no pixel satisfies any colour
\* range (an all-black image), green_space_percentage and every breakdown
\* entry are 0; if every pixel is inside a parks_grass RGB range, the
\* parks_grass entry and green_space_percentage are 100.00; and closing then
\* opening leaves a mask with no pixel set, or with every pixel set, as it is.
C20_ClassifierBoundaryCases ==
  (cv.pc = "done" /\ cv.readable /\ cv.raised_in \notin {"imread", "detect"})
    => /\ cv.returned = "dict"
       /\ NoRangeMatches(cv.image)
            => /\ cv.result.green_space_percentage = 0
               /\ \A t \in GreenTypes : cv.result.breakdown[t] = 0
       /\ AllInParksGrassRgb(cv.image)
            => /\ cv.result.breakdown["parks_grass"] = 10000
               /\ cv.result.green_space_percentage = 10000
       /\ \A t \in GreenTypes :
            /\ (\A p \in Pixels : ~cv.type_masks[t][p])
                 => \A p \in Pixels : ~cv.green_masks[t][p]
            /\ (\A p \in Pixels : cv.type_masks[t][p])
                 => \A p \in Pixels : cv.green_masks[t][p]

C20_Witness ==
  /\ cv.pc = "done" /\ cv.returned = "dict"
  /\ \A p \in Pixels : cv.image[p] = ParkGreen
  /\ cv.result.breakdown["parks_grass"] = 10000
  /\ cv.result.green_space_percentage = 10000
  /\ cv.result.breakdown["forests_woods"] = 0

\* C21: every write of an executor run to a neighbourhood job record, on the
\* in-process and on the Celery executor, carries a progress above the one
\* stored before it, and carries 100 exactly when it sets the status completed
\* or failed: a record written as processing has a progress below 100.
C21_ProgressIncreasesTo100AtTheEnd ==
  [][\A j \in Jobs :
       (rec[j].exists /\ rec[j].coll = "nbr" /\ rec'[j] # rec[j])
         => /\ rec'[j].progress > rec[j].progress
            /\ rec'[j].progress = 100 <=> rec'[j].status \in Terminal
            /\ rec'[j].status = "processing" => rec'[j].progress < 100]_vars

C21_Witness ==
  \E j \in Jobs :
    /\ rec[j].coll = "nbr" /\ run[j].kind = "celery" /\ run[j].pc = "done"
    /\ {"buildings", "map"} \subseteq stages[j]
    /\ rec[j].status = "completed" /\ rec[j].progress = 100

\* C22: in the dict analyze_osm_green_spaces returns, green_pixels counts the
\* pixels set in at least one of the four category masks (after their closing
\* and opening), and a category's mask before the morphology has a pixel set
\* exactly when the pixel is inside one of the category's RGB ranges or one of
\* its HSV ranges; each category's pixel count is at most green_pixels, which
\* is at most total_pixels, every breakdown percentage is at most
\* green_space_percentage, and that lies between 0 and 100.
C22_CombinedMaskIsUnionOfCategories ==
  (cv.pc = "done" /\ cv.returned = "dict")
    => /\ cv.result.green_pixels =
            Cardinality({p \in Pixels : \E t \in GreenTypes : cv.green_masks[t][p]})
       /\ \A t \in GreenTypes : \A p \in Pixels :
            cv.type_masks[t][p] <=>
              \/ \E rg \in RgbRanges(t) : inRange(cv.image[p], rg[1], rg[2])
              \/ \E rg \in HsvRanges(t) : inRange(RGB2HSV(cv.image[p]), rg[1], rg[2])
       /\ \A t \in GreenTypes :
            /\ CountPixels(cv.green_masks[t]) <= cv.result.green_pixels
            /\ cv.result.breakdown[t] <= cv.result.green_space_percentage
       /\ cv.result.green_pixels <= cv.result.total_pixels
       /\ cv.result.green_space_percentage \in 0..10000

C22_Witness ==
  /\ cv.pc = "done" /\ cv.returned = "dict"
  /\ \E p \in Pixels : cv.image[p] = WoodGreen
  /\ \E p \in Pixels : cv.image[p] = Black
  /\ cv.result.breakdown["forests_woods"] > 0
  /\ cv.result.breakdown["parks_grass"] = 0
  /\ cv.result.green_space_percentage >= cv.result.breakdown["forests_woods"]

C24_CheckpointDataIsStored ==
  \A j \in Jobs :
    (/\ rec[j].coll = "nbr" /\ rec[j].status = "processing"
     /\ run[j].coordinates # NULL)
      => /\ rec[j].progress >= (IF run[j].kind = "inproc" THEN PROGRESS_AMENITIES ELSE 50)
              => (rec[j].coordinates # NULL /\ rec[j].amenities # NULL)
         /\ rec[j].progress >= PROGRESS_WALK_SCORE => rec[j].walk_score # NULL

\* C25: a call of poll_task_status ends; it returns the result (or an empty
\* dict) at the first reply that reports completed, None at the first reply
\* that reports failed, and None once max_wait has gone by when every reply
\* was an error, a 404, pending or processing; it sends no request after
\* max_wait has gone by and changes nothing of the job.
C25_PollingTerminates ==
  /\ <>(cl.pc = "done")
  /\ [](cl.pc = "done" =>
          IF cl.reply.code = 200 /\ cl.reply.status = "completed"
            THEN cl.returned \in {"result", "{}"}
            ELSE /\ cl.returned = "None"
                 /\ \/ cl.reply.code = 200 /\ cl.reply.status = "failed"
                    \/ cl.elapsed >= cl.max_wait)
  /\ [][/\ (cl.pc = "get" /\ cl'.reply.code = 200
               /\ cl'.reply.status \in {"completed", "failed"}) => cl'.pc = "done"
        /\ cl'.requests > cl.requests => cl.elapsed < cl.max_wait
        /\ pipeline' = pipeline]_vars

C25_Witness ==
  /\ cl.pc = "done" /\ cl.returned = "None" /\ cl.requests >= 2
  /\ cl.reply.kind = "raised" /\ cl.elapsed >= cl.max_wait

\* C26: the message get_task_status gives for a backend handle is, for a dict
\* payload, the value of the first of the keys status, message, detail that
\* holds a non-empty value, and "Task <state>" when none does; "Task <state>"
\* for an absent payload; and the payload's string form only for a payload that
\* is neither absent nor a dict.
C26_MessageByPreferenceOrder ==
  em.pc = "done"
    => /\ em.info.type = "None" => em.message = TaskState(em.state)
       /\ em.info.type = "dict" =>
            /\ \A i \in 1..Len(MessageKeys) :
                 (/\ Truthy(em.info[MessageKeys[i]])
                  /\ \A h \in 1..(i - 1) : ~Truthy(em.info[MessageKeys[h]]))
                   => em.message = em.info[MessageKeys[i]]
            /\ (\A i \in 1..Len(MessageKeys) : ~Truthy(em.info[MessageKeys[i]]))
                 => em.message = TaskState(em.state)
       /\ em.message = "str of " \o em.info.type <=> em.info.type \notin {"None", "dict"}

C26_Witness ==
  /\ em.pc = "done" /\ em.info.type = "dict" /\ em.state = "PROGRESS"
  /\ em.info.status = "" /\ em.info.message = "text of message"
  /\ em.info.detail = "text of detail" /\ em.message = "text of message"

\* C27: in analyze_neighborhood_task every PROGRESS state published to the
\* backend is followed by the write of the same progress to the job record,
\* so between two checkpoints the backend's progress and the record's are
\* equal while the record is processing; and a run that returns a completed
\* result has left the record completed with progress 100.
C27_BackendAndRecordProgressAgree ==
  /\ [](\A j \in Jobs :
          (run[j].kind = "celery" /\ rec[j].coll = "nbr")
            => /\ (/\ task[j].state = "PROGRESS" /\ rec[j].status = "processing"
                   /\ run[j].pc # "record")
                    => rec[j].progress = task[j].progress
               /\ run[j].result = "completed"
                    => (rec[j].status = "completed" /\ rec[j].progress = 100))
  /\ [][\A j \in Jobs :
          rec[j].coll = "nbr"
            => /\ (task'[j] # task[j] /\ task'[j].state = "PROGRESS")
                    => (run'[j].pc = "record" /\ rec'[j] = rec[j])
               /\ (run[j].kind = "celery" /\ run[j].pc = "record" /\ run'[j] # run[j])
                    => /\ rec'[j].progress = task[j].progress
                       /\ rec'[j].status = "processing"]_vars

C27_Witness ==
  \E j \in Jobs :
    /\ run[j].kind = "celery" /\ rec[j].coll = "nbr" /\ run[j].pc = "map"
    /\ task[j].state = "PROGRESS" /\ task[j].progress = 80
    /\ rec[j].status = "processing" /\ rec[j].progress = 80

\* C28: a run of the standalone green-space executor (in-process or Celery)
\* that has ended has left the job record completed or failed with progress
\* 100: completed only after geocoding, tile fetch and classification all gave
\* a result, failed with the error of the stage that gave nothing or with the
\* message of the exception; and every write of the run raises the progress,
\* through 10, 30, 60 to 100.
C28_StandaloneRunEndsTerminal ==
  /\ [](\A j \in Jobs :
          (run[j].pc = "done" /\ rec[j].coll = "sat")
            => /\ rec[j].status \in Terminal
               /\ rec[j].progress = 100
               /\ rec[j].status = "completed"
                    => /\ {"geocode", "tiles", "classify"} \subseteq stages[j]
                       /\ rec[j].green_space_percentage # NULL
               /\ rec[j].status = "failed"
                    => rec[j].error \in
                         {"Could not geocode address", "Failed to fetch OSM tiles",
                          "Failed to fetch OpenStreetMap tiles", "Map file not found",
                          "Green space calculation failed"} \cup ExcMsgs)
  /\ [][\A j \in Jobs :
          (rec[j].exists /\ rec[j].coll = "sat" /\ rec'[j] # rec[j])
            => /\ rec'[j].progress > rec[j].progress
               /\ rec'[j].progress \in {10, 30, 60, 100}]_vars

\* C29: with any number of Database.get_database and Database.connect calls
\* interleaved at their awaits, at most one client is open at a time and none
\* is constructed while a connection is live; whenever _is_connected is True,
\* client and db are set (and belong together); a call of connect that raises
\* leaves client None and _is_connected False; and a call that returns hands
\* on the db of the live client.
C29_OneClientPerLiveConnection ==
  /\ [](/\ Cardinality(dbc.open) <= 1
        /\ dbc.is_connected => (dbc.client # 0 /\ dbc.db = dbc.client
                                  /\ dbc.client \in dbc.open)
        /\ Cardinality({c \in Callers : dbc.call[c].pc \in {"ping", "list"}}) <= 1)
  /\ [][/\ dbc'.created > dbc.created => (~dbc.is_connected /\ dbc.client = 0)
        /\ \A c \in Callers :
             /\ (dbc.call[c].pc # "raised" /\ dbc'.call[c].pc = "raised")
                  => (dbc'.client = 0 /\ ~dbc'.is_connected)
             /\ (dbc.call[c].pc # "returned" /\ dbc'.call[c].pc = "returned")
                  => (dbc'.is_connected /\ dbc'.call[c].ret = dbc'.client)]_vars

\* a call failed at the ping, and a later call connected with a second client
C29_Witness ==
  /\ dbc.is_connected /\ dbc.client = 2 /\ dbc.created = 2 /\ dbc.open = {2}
  /\ \E c \in Callers : dbc.call[c].pc = "raised"
  /\ \E c \in Callers : dbc.call[c].pc = "returned" /\ dbc.call[c].fn = "get_database"

====
